---- MODULE Spec2Model ----
(***************************************************************************)
(* A model of drive.upspin.io/cloud/storage/drive: the driveImpl storage   *)
(* (Download, Put, Delete, fileId) over a Google Drive backend that allows *)
(* several files of one name, with its LRU cache of name -> file ID, and   *)
(* of New, which builds the storage from its options.                      *)
(*                                                                         *)
(* Every backend call (files.List, files.Get, files.Delete, files.Create)  *)
(* and every call on the mutex-protected LRU (Get, Add, Remove) is one     *)
(* atomic step; the calls of one operation are separate steps, so the      *)
(* operations of several goroutines interleave between them.               *)
(***************************************************************************)
EXTENDS Integers, Sequences, FiniteSets, TLC

\* ------------------------------------------------------------------ bounds

\* references, contents and goroutines of the model
Refs == {"a", "b"}
Vals == {"v1", "v2"}
Procs == {1, 2}
\* the contents that concurrent callers put: none of what is checked of their
\* interleavings tells contents apart
OneVal == {"v1"}
\* the backend assigns at most MaxIds file IDs in a behaviour
MaxIds == 2
\* the backend lists at most PageSize files in one page
PageSize == 1

\* ------------------------------------------------------- program constants

LRUSize == 60
\* the empty file ID "" that fileId returns with an error
NoId == 0

\* World 1 is a driveImpl with its LRU and its own backend; world 2 is the
\* reference instance of the refinement check: the same code over its own
\* backend, with a cache that always misses.
Worlds == {1, 2}
Caching(w) == w = 1

VARIABLES
    objs,    \* objs[w]: the files of the backend's appDataFolder: [id, name, data]
    nextId,  \* nextId[w]: the ID the backend gives the next created file
    ids,     \* ids[w]: d.ids, the LRU: a sequence of [name, id], most recent first
    proc,    \* proc[p]: the operation goroutine p runs, its locals and its result
    home,    \* home[p]: the instance goroutine p calls
    hist,    \* history: what the calls made so far let a caller expect
    opts,    \* the options handed to New
    built    \* what New returned: "none" before it ran, "ok", or the error's kind

vars == <<objs, nextId, ids, proc, home, hist, opts, built>>

\* ------------------------------------------------------------ the LRU cache

LRUHas(c, name) == \E i \in 1..Len(c) : c[i].name = name

LRUValue(c, name) == (CHOOSE i \in 1..Len(c) : c[i].name = name)

LRUOthers(c, name) == SelectSeq(c, LAMBDA e : e.name # name)

\* Get of a present key moves it to the front
LRUGet(c, name) ==
    IF LRUHas(c, name) THEN <<c[LRUValue(c, name)]>> \o LRUOthers(c, name) ELSE c

\* an Add that discards nothing
LRUAdd_Unbounded(c, name, id) == <<[name |-> name, id |-> id]>> \o LRUOthers(c, name)

\* Add puts the entry at the front and discards the oldest beyond the capacity
LRUAdd(c, name, id) ==
    LET n == <<[name |-> name, id |-> id]>> \o LRUOthers(c, name)
    IN IF Len(n) > LRUSize THEN SubSeq(n, 1, LRUSize) ELSE n

LRURemove(c, name) == LRUOthers(c, name)

CacheHit(w, name) == Caching(w) /\ LRUHas(ids[w], name)

CachedId(w, name) == ids[w][LRUValue(ids[w], name)].id

\* -------------------------------------------------------------- the backend

\* a query that leaves out the name
Named_All(w, name) == objs[w]

\* the files that the query name='name' finds
Named(w, name) == {o \in objs[w] : o.name = name}

Exists(w, id) == \E o \in objs[w] : o.id = id

FileOf(w, id) == CHOOSE o \in objs[w] : o.id = id

\* the orders in which a query may list a set of files
Orderings(S) ==
    {s \in [1..Cardinality(S) -> S] : \A i, j \in 1..Cardinality(S) : s[i] = s[j] => i = j}

ListResponses(w, name) == Orderings({o.id : o \in Named(w, name)})

\* --------------------------------------------------------------- operations

\* An operation started with fail = "any" may see each of its backend calls
\* fail; one started in step with the reference instance is told which kind
\* of call, if any, fails for both
FailKinds == {"none", "list", "download", "delete", "create"}

\* whether the backend call of this kind that pr issues is made to fail
CallOutcomes(pr, kind) == IF pr.fail = "any" THEN BOOLEAN ELSE {pr.fail = kind}

\* the empty continuation token ""
NoToken == 0

IdleProc ==
    [op |-> "none", ref |-> "a", val |-> "v1", pc |-> "idle", nested |-> FALSE,
     fail |-> "any", inj |-> "none", id |-> NoId, putId |-> NoId, files |-> <<>>, calls |-> <<>>,
     res |-> "none", data |-> "none", token |-> NoToken, items |-> <<>>,
     solo |-> FALSE, absent |-> FALSE, afterDel |-> FALSE, afterPut |-> FALSE]

\* q's operation has not returned to its caller
InFlight(q) == proc[q].pc \notin {"idle", "done"}

\* every call has returned to its caller and the caller has its result
Quiescent == \A q \in Procs : proc[q].pc = "idle"

Issued(pr, kind) == \E i \in 1..Len(pr.calls) : pr.calls[i] = kind

\* the operation returns res to its caller; its locals are gone
Finish(pr, res) ==
    [pr EXCEPT !.pc = "done", !.res = res, !.nested = FALSE, !.id = NoId, !.putId = NoId]

\* Download, after id, err := d.fileId(ref)
DownloadAfterFileId(pr, id, err) ==
    IF err = "NotExist" THEN Finish(pr, "NotExist")
    ELSE IF err = "IO" THEN Finish(pr, "IO")
    ELSE [pr EXCEPT !.id = id, !.pc = "download"]

\* Put that creates the new file without deleting the one it found
PutAfterFileId_NoDelete(pr, id, err) ==
    IF err = "IO" THEN Finish(pr, "IO") ELSE [pr EXCEPT !.pc = "create"]

\* Put that goes on when fileId failed
PutAfterFileId_IgnoreErr(pr, id, err) ==
    IF id # NoId THEN [pr EXCEPT !.putId = id, !.nested = TRUE, !.pc = "get"]
    ELSE [pr EXCEPT !.pc = "create"]

\* Put, after id, err := d.fileId(ref): an existing file is deleted first
PutAfterFileId(pr, id, err) ==
    IF err = "IO" THEN Finish(pr, "IO")
    ELSE IF id # NoId THEN [pr EXCEPT !.putId = id, !.nested = TRUE, !.pc = "get"]
    ELSE [pr EXCEPT !.pc = "create"]

\* Delete returns err to Put, or to the caller
DeleteReturn(pr, err) ==
    IF pr.nested
    THEN IF err = "nil" THEN [pr EXCEPT !.nested = FALSE, !.pc = "create"]
         ELSE Finish(pr, err)
    ELSE Finish(pr, err)

\* Delete, after id, err := d.fileId(ref)
DeleteAfterFileId(pr, id, err) ==
    IF err = "NotExist" THEN DeleteReturn(pr, "nil")
    ELSE IF err = "IO" THEN DeleteReturn(pr, "IO")
    ELSE [pr EXCEPT !.id = id, !.pc = "delete"]

\* fileId returns (id, err) to the function that called it
AfterFileId(pr, id, err) ==
    IF pr.op = "Download" THEN DownloadAfterFileId(pr, id, err)
    ELSE IF pr.op = "Put" /\ ~pr.nested THEN PutAfterFileId(pr, id, err)
    ELSE DeleteAfterFileId(pr, id, err)

\* ------------------------------------------------------------------ history

\* the goroutines that call the same instance as p
Peers(p) == {q \in Procs \ {p} : home[q] = home[p]}

FailClass(kind) ==
    IF kind = "none" THEN "none" ELSE IF kind = "list" THEN "query" ELSE "call"

Worst(a, b) ==
    IF "query" \in {a, b} THEN "query" ELSE IF "call" \in {a, b} THEN "call" ELSE "none"

NoLast == [r \in Refs |-> "none"]

\* what is recorded of a history that is no longer sequential
Normal(h) ==
    IF h.seq THEN h
    ELSE [h EXCEPT !.last = NoLast, !.fails = "query", !.put = "none", !.failedPut = NoLast]

InitHist ==
    [seq |-> TRUE, fails |-> "none", last |-> NoLast,
     deleted |-> [r \in Refs |-> FALSE], put |-> "none", failedPut |-> NoLast]

PutInFlight(S, ref) ==
    \E q \in S : InFlight(q) /\ proc[q].op = "Put" /\ proc[q].ref = ref

\* p starts op(ref): the history stays sequential when every earlier call has
\* returned to its caller; a Delete(ref) that returned success is remembered
\* until a Put(ref) starts, the successful Put that was the last call until
\* any call starts
HistBegin(p, op, ref) ==
    Normal([seq |-> hist.seq /\ \A q \in Procs \ {p} : proc[q].pc = "idle",
            fails |-> hist.fails,
            last |-> hist.last,
            deleted |-> [hist.deleted EXCEPT ![ref] = @ /\ op # "Put"],
            put |-> "none",
            failedPut |-> hist.failedPut])

\* p's operation takes a step to pr2; when that is its return, a successful
\* Put or Delete is recorded, and of a failed Put(ref) whether it got to its
\* create call ("create") or not ("early"), until a Put(ref) or Delete(ref)
\* succeeds
HistStep(p, pr2) ==
    IF pr2.pc # "done" THEN hist
    ELSE IF pr2.res # "nil"
    THEN Normal([hist EXCEPT
            !.fails = Worst(@, FailClass(pr2.inj)),
            !.failedPut = [@ EXCEPT ![pr2.ref] =
                        IF pr2.op # "Put" THEN @
                        ELSE IF Issued(pr2, "create") \/ @ = "create" THEN "create"
                        ELSE "early"]])
    ELSE Normal([hist EXCEPT
            !.last = [@ EXCEPT ![pr2.ref] =
                        IF pr2.op = "Put" THEN pr2.val
                        ELSE IF pr2.op = "Delete" THEN "none" ELSE @],
            !.put = IF pr2.op = "Put" THEN pr2.ref ELSE "none",
            !.failedPut = [@ EXCEPT ![pr2.ref] =
                        IF pr2.op \in {"Put", "Delete"} THEN "none" ELSE @],
            !.deleted = [@ EXCEPT ![pr2.ref] =
                        @ \/ (pr2.op = "Delete" /\ ~PutInFlight(Peers(p), pr2.ref))]])

\* ---------------------------------------------------------------------- New

OptKeys == {"accessToken", "tokenType", "refreshToken", "expiry"}

Digits == <<"0", "1", "2", "3", "4", "5", "6", "7", "8", "9">>

IsDigit(c) == \E d \in 1..Len(Digits) : Digits[d] = c

DigitVal(c) == (CHOOSE d \in 1..Len(Digits) : Digits[d] = c) - 1

AllDigits(s, from, to) == \A i \in from..to : IsDigit(s[i])

\* the number written in s[from..to]
RECURSIVE Num(_, _, _)
Num(s, from, to) ==
    IF to < from THEN 0 ELSE Num(s, from, to - 1) * Len(Digits) + DigitVal(s[to])

LeapYear(y) == (y % 4 = 0 /\ y % 100 # 0) \/ y % 400 = 0

DaysIn(y, m) ==
    IF m = 2 THEN (IF LeapYear(y) THEN 29 ELSE 28)
    ELSE IF m \in {4, 6, 9, 11} THEN 30 ELSE 31

\* time.Parse(time.RFC3339, s) returns no error: s, a sequence of characters,
\* is yyyy-mm-ddThh:mm:ss followed by Z or by +hh:mm or -hh:mm, every field in
\* its range (a fraction of a second, which Parse also accepts, is not among
\* the inputs of the model)
ParsesRFC3339(s) ==
    /\ Len(s) \in {20, 25}
    /\ AllDigits(s, 1, 4) /\ AllDigits(s, 6, 7) /\ AllDigits(s, 9, 10)
    /\ AllDigits(s, 12, 13) /\ AllDigits(s, 15, 16) /\ AllDigits(s, 18, 19)
    /\ s[5] = "-" /\ s[8] = "-" /\ s[11] = "T" /\ s[14] = ":" /\ s[17] = ":"
    /\ Num(s, 6, 7) \in 1..12
    /\ Num(s, 9, 10) \in 1..DaysIn(Num(s, 1, 4), Num(s, 6, 7))
    /\ Num(s, 12, 13) \in 0..23 /\ Num(s, 15, 16) \in 0..59 /\ Num(s, 18, 19) \in 0..59
    /\ IF Len(s) = 20 THEN s[20] = "Z"
       ELSE /\ s[20] \in {"+", "-"} /\ s[23] = ":"
            /\ AllDigits(s, 21, 22) /\ AllDigits(s, 24, 25)
            /\ Num(s, 21, 22) \in 0..23 /\ Num(s, 24, 25) \in 0..59

\* the expiry of the package's test, and other texts an option may hold
ExpiryTest == <<"2", "0", "1", "7", "-", "1", "0", "-", "1", "2", "T", "0", "9", ":", "4", "5", ":", "3", "8", "+", "0", "2", ":", "0", "0">>
Expiries ==
    {ExpiryTest,
     <<"2", "0", "1", "7", "-", "1", "0", "-", "1", "2", "T", "0", "9", ":", "4", "5", ":", "3", "8", "Z">>,
     <<>>,
     <<"2", "0", "1", "7", "-", "1", "0", "-", "1", "2">>,
     <<"2", "0", "1", "7", "-", "1", "3", "-", "1", "2", "T", "0", "9", ":", "4", "5", ":", "3", "8", "Z">>,
     <<"2", "0", "1", "7", "-", "1", "0", "-", "1", "2", " ", "0", "9", ":", "4", "5", ":", "3", "8", "Z">>,
     <<"2", "0", "1", "7", "-", "0", "2", "-", "3", "0", "T", "0", "9", ":", "4", "5", ":", "3", "8", "Z">>}

\* o.Opts: the keys present and, when "expiry" is, its text
OptsSet == [present : SUBSET OptKeys, expiry : Expiries]

\* o.Opts["expiry"]: the empty string for an absent key
ExpiryOf(o) == IF "expiry" \in o.present THEN o.expiry ELSE <<>>

\* the kind of the error New returns, or "ok" (drive.New fails only for a nil
\* client, which config.OAuth2.Client never returns)
NewResult(o) ==
    IF "accessToken" \notin o.present THEN "Internal"
    ELSE IF "tokenType" \notin o.present THEN "Internal"
    ELSE IF "refreshToken" \notin o.present THEN "Internal"
    ELSE IF ~ParsesRFC3339(ExpiryOf(o)) THEN "Internal"
    ELSE "ok"

\* cache.NewLRU(LRUSize)
NewLRU == <<>>

\* ------------------------------------------------- a storage in long use

\* Names other than Refs that the storage served before: each has its file in
\* the folder and, a Download having resolved it, its entry in the cache, which
\* is one entry short of full
Others == LRUSize - 1

OtherName(i) == ToString(i)

OtherFile(i) == [id |-> MaxIds + i, name |-> OtherName(i), data |-> "v1"]

OtherFiles == {OtherFile(i) : i \in 1..Others}

OtherEntries == [i \in 1..Others |-> [name |-> OtherName(i), id |-> OtherFile(i).id]]

\* ------------------------------------------------------------------ actions

TypeOK ==
    /\ \A w \in Worlds : nextId[w] \in 1..(MaxIds + 1)
    /\ \A w \in Worlds : \A o \in objs[w] :
          \/ o.id \in 1..MaxIds /\ o.name \in Refs /\ o.data \in Vals
          \/ o \in OtherFiles
    /\ \A p \in Procs : proc[p].pc \in
          {"idle", "get", "list", "add", "download", "delete", "remove", "create", "page", "done"}

\* an empty appDataFolder, an empty cache and no call made yet
Start ==
    /\ objs = [w \in Worlds |-> {}]
    /\ nextId = [w \in Worlds |-> 1]
    /\ ids = [w \in Worlds |-> NewLRU]
    /\ proc = [p \in Procs |-> IdleProc]
    /\ hist = InitHist

\* a storage built by New, called by every goroutine
Init ==
    /\ Start
    /\ home = [p \in Procs |-> 1]
    /\ opts = [present |-> OptKeys, expiry |-> ExpiryTest]
    /\ built = "ok"

\* every Put may create a file: no more Puts start than the backend has IDs
Budget(w) ==
    nextId[w] + Cardinality({q \in Procs : home[q] = w /\ InFlight(q) /\ proc[q].op = "Put"})
        <= MaxIds

StartProc(p, op, ref, val, fail) ==
    [IdleProc EXCEPT !.op = op, !.ref = ref, !.val = val, !.fail = fail, !.pc = "get",
        !.solo = op # "Download" /\ \A q \in Peers(p) : ~InFlight(q),
        !.absent = op = "Delete" /\ Named(home[p], ref) = {},
        !.afterDel = op = "Download" /\ hist.deleted[ref],
        !.afterPut = /\ op \in {"Download", "Delete"} /\ hist.put = ref
                     /\ hist.seq /\ \A q \in Procs \ {p} : proc[q].pc = "idle"]

\* a caller starts an operation on the storage: fileId(ref) is its first call
Begin(p, op, ref, val, fail) ==
    /\ built = "ok"
    /\ proc[p].pc = "idle"
    /\ op = "Put" => Budget(home[p])
    /\ proc' = [q \in Procs |->
                  IF q = p THEN StartProc(p, op, ref, val, fail)
                  ELSE IF q \in Peers(p) /\ InFlight(q)
                  THEN [proc[q] EXCEPT
                          !.solo = FALSE,
                          !.afterPut = FALSE,
                          !.afterDel = @ /\ ~(op = "Put" /\ proc[q].ref = ref)]
                  ELSE [proc[q] EXCEPT !.afterPut = FALSE]]
    /\ hist' = HistBegin(p, op, ref)
    /\ UNCHANGED <<objs, nextId, ids, home, opts, built>>

BeginDownload(p) == \E ref \in Refs : Begin(p, "Download", ref, "v1", "any")

BeginPut(p, V) == \E ref \in Refs, val \in V : Begin(p, "Put", ref, val, "any")

BeginDelete(p) == \E ref \in Refs : Begin(p, "Delete", ref, "v1", "any")

\* p's operation moves on to pr2
Step(p, pr2) ==
    /\ proc' = [proc EXCEPT ![p] = pr2]
    /\ hist' = HistStep(p, pr2)

\* fileId: d.ids.Get(name)
CacheGet(p) ==
    LET pr == proc[p]
        w == home[p]
    IN /\ pr.pc = "get"
       /\ IF CacheHit(w, pr.ref)
          THEN /\ ids' = [ids EXCEPT ![w] = LRUGet(@, pr.ref)]
               /\ Step(p, AfterFileId(pr, CachedId(w, pr.ref), "nil"))
          ELSE /\ ids' = ids
               /\ Step(p, [pr EXCEPT !.pc = "list"])
       /\ UNCHANGED <<objs, nextId, home, opts, built>>

\* pr issues a backend call of this kind; bad: it is made to fail
Call(pr, kind, bad) ==
    [pr EXCEPT !.calls = Append(@, kind), !.inj = IF bad THEN kind ELSE @]

\* fileId that caches the empty ID of a name the query did not find
AfterList_CacheEmpty(pr, files, err) ==
    IF err # "nil" THEN AfterFileId(pr, NoId, "IO")
    ELSE [pr EXCEPT !.files = IF Len(files) = 0 THEN <<NoId>> ELSE files, !.pc = "add"]

\* what fileId does with the query's response r, err
AfterList(pr, files, err) ==
    IF err # "nil" THEN AfterFileId(pr, NoId, "IO")
    ELSE IF Len(files) = 0 THEN AfterFileId(pr, NoId, "NotExist")
    ELSE [pr EXCEPT !.files = files, !.pc = "add"]

\* fileId: list.Do(), the query for the files named name
ListDo(p) ==
    LET pr == proc[p]
        w == home[p]
    IN /\ pr.pc = "list"
       /\ \E bad \in CallOutcomes(pr, "list") :
            IF bad
            THEN Step(p, AfterList(Call(pr, "list", TRUE), <<>>, "IO"))
            ELSE \E files \in ListResponses(w, pr.ref) :
                    Step(p, AfterList(Call(pr, "list", FALSE), files, "nil"))
       /\ UNCHANGED <<objs, nextId, ids, home, opts, built>>

\* fileId that takes the last file of the response
FirstMatch_Last(files) == files[Len(files)]

\* the ID fileId takes from the response
FirstMatch(files) == files[1]

\* fileId: d.ids.Add(name, id) and return id, nil
CacheAdd(p) ==
    LET pr == proc[p]
        w == home[p]
        id == FirstMatch(pr.files)
    IN /\ pr.pc = "add"
       /\ ids' = [ids EXCEPT ![w] = IF Caching(w) THEN LRUAdd(@, pr.ref, id) ELSE @]
       /\ Step(p, AfterFileId([pr EXCEPT !.files = <<>>], id, "nil"))
       /\ UNCHANGED <<objs, nextId, home, opts, built>>

\* Download: d.files.Get(id).Download() and ioutil.ReadAll
GetDownload(p) ==
    LET w == home[p]
    IN /\ proc[p].pc = "download"
       /\ \E bad \in CallOutcomes(proc[p], "download") :
            LET pr == Call(proc[p], "download", bad)
            IN IF ~bad /\ Exists(w, pr.id)
               THEN Step(p, [Finish(pr, "bytes") EXCEPT !.data = FileOf(w, pr.id).data])
               ELSE Step(p, Finish(pr, "IO"))
       /\ UNCHANGED <<objs, nextId, ids, home, opts, built>>

\* Delete that leaves the cache entry of the file it deleted
AfterFilesDelete_NoRemove(pr, err) ==
    IF err # "nil" THEN DeleteReturn(pr, "IO") ELSE DeleteReturn(pr, "nil")

\* Delete that removes the cache entry whatever the backend answered
AfterFilesDelete_AlwaysRemove(pr, err) == [pr EXCEPT !.pc = "remove"]

\* Delete, after d.files.Delete(id).Do() returned err
AfterFilesDelete(pr, err) ==
    IF err # "nil" THEN DeleteReturn(pr, "IO") ELSE [pr EXCEPT !.pc = "remove"]

\* Delete: d.files.Delete(id).Do()
FilesDelete(p) ==
    LET w == home[p]
    IN /\ proc[p].pc = "delete"
       /\ \E bad \in CallOutcomes(proc[p], "delete") :
            LET pr == Call(proc[p], "delete", bad)
            IN IF ~bad /\ Exists(w, pr.id)
               THEN /\ objs' = [objs EXCEPT ![w] = @ \ {FileOf(w, pr.id)}]
                    /\ Step(p, AfterFilesDelete(pr, "nil"))
               ELSE /\ objs' = objs
                    /\ Step(p, AfterFilesDelete(pr, "IO"))
       /\ UNCHANGED <<nextId, ids, home, opts, built>>

\* Delete: d.ids.Remove(ref) and return nil
CacheRemove(p) ==
    LET pr == proc[p]
        w == home[p]
    IN /\ pr.pc = "remove"
       /\ ids' = [ids EXCEPT ![w] = LRURemove(@, pr.ref)]
       /\ Step(p, DeleteReturn(pr, "nil"))
       /\ UNCHANGED <<objs, nextId, home, opts, built>>

\* Put that creates its file with no Parents: the file is not in appDataFolder
FilesCreate_NoParents(p) ==
    /\ proc[p].pc = "create"
    /\ nextId' = [nextId EXCEPT ![home[p]] = @ + 1]
    /\ Step(p, Finish(Call(proc[p], "create", FALSE), "nil"))
    /\ UNCHANGED <<objs, ids, home, opts, built>>

\* Put that caches the ID of the file it created
FilesCreate_CachesId(p) ==
    LET w == home[p]
        pr == Call(proc[p], "create", FALSE)
    IN /\ proc[p].pc = "create"
       /\ objs' = [objs EXCEPT ![w] = @ \cup {[id |-> nextId[w], name |-> pr.ref, data |-> pr.val]}]
       /\ nextId' = [nextId EXCEPT ![w] = @ + 1]
       /\ ids' = [ids EXCEPT ![w] = LRUAdd(@, pr.ref, nextId[w])]
       /\ Step(p, Finish(pr, "nil"))
       /\ UNCHANGED <<home, opts, built>>

\* Put: d.files.Create(...).Media(...).Do()
FilesCreate(p) ==
    LET w == home[p]
    IN /\ proc[p].pc = "create"
       /\ \E bad \in CallOutcomes(proc[p], "create") :
            LET pr == Call(proc[p], "create", bad)
            IN IF ~bad
               THEN /\ objs' = [objs EXCEPT ![w] =
                            @ \cup {[id |-> nextId[w], name |-> pr.ref, data |-> pr.val]}]
                    /\ nextId' = [nextId EXCEPT ![w] = @ + 1]
                    /\ Step(p, Finish(pr, "nil"))
               ELSE /\ UNCHANGED <<objs, nextId>>
                    /\ Step(p, Finish(pr, "IO"))
       /\ UNCHANGED <<ids, home, opts, built>>

\* the caller has the operation's result; p may be given the next call
Return(p) ==
    /\ proc[p].pc = "done"
    /\ proc' = [proc EXCEPT ![p] = IdleProc]
    /\ UNCHANGED <<objs, nextId, ids, home, hist, opts, built>>

Next ==
    \E p \in Procs :
        \/ BeginDownload(p)
        \/ BeginPut(p, OneVal)
        \/ BeginDelete(p)
        \/ CacheGet(p)
        \/ ListDo(p)
        \/ CacheAdd(p)
        \/ GetDownload(p)
        \/ FilesDelete(p)
        \/ CacheRemove(p)
        \/ FilesCreate(p)
        \/ Return(p)

Spec == Init /\ [][Next]_vars

\* ------------------------------------------------------- sequential callers

\* the histories in which no two calls overlap
SeqNext ==
    \E p \in Procs :
        \/ Quiescent /\ BeginDownload(p)
        \/ Quiescent /\ BeginPut(p, Vals)
        \/ Quiescent /\ BeginDelete(p)
        \/ CacheGet(p)
        \/ ListDo(p)
        \/ CacheAdd(p)
        \/ GetDownload(p)
        \/ FilesDelete(p)
        \/ CacheRemove(p)
        \/ FilesCreate(p)
        \/ Return(p)

SeqSpec == Init /\ [][SeqNext]_vars

\* -------------------------------------------------- callers whose Puts overlap

\* no call other than a Put is under way
PutsOnly == \A q \in Procs : proc[q].pc # "idle" => proc[q].op = "Put"

\* the histories in which only Put calls overlap each other
PutsOverlapNext ==
    \E p \in Procs :
        \/ Quiescent /\ BeginDownload(p)
        \/ PutsOnly /\ BeginPut(p, Vals)
        \/ Quiescent /\ BeginDelete(p)
        \/ CacheGet(p)
        \/ ListDo(p)
        \/ CacheAdd(p)
        \/ GetDownload(p)
        \/ FilesDelete(p)
        \/ CacheRemove(p)
        \/ FilesCreate(p)
        \/ Return(p)

PutsOverlapSpec == Init /\ [][PutsOverlapNext]_vars

\* ----------------------------------------------- callers of a nearly full cache

FullInit ==
    /\ objs = [w \in Worlds |-> IF w = 1 THEN OtherFiles ELSE {}]
    /\ nextId = [w \in Worlds |-> 1]
    /\ ids = [w \in Worlds |-> IF w = 1 THEN OtherEntries ELSE NewLRU]
    /\ proc = [p \in Procs |-> IdleProc]
    /\ hist = InitHist
    /\ home = [p \in Procs |-> 1]
    /\ opts = [present |-> OptKeys, expiry |-> ExpiryTest]
    /\ built = "ok"

\* no Put is under way
NoPut == \A q \in Procs : proc[q].pc # "idle" => proc[q].op # "Put"

\* callers whose Downloads and Deletes overlap and whose Puts run alone, over
\* a backend whose calls fail only for a missing file
FullNext ==
    \E p \in Procs :
        \/ NoPut /\ \E ref \in Refs : Begin(p, "Download", ref, "v1", "none")
        \/ Quiescent /\ \E ref \in Refs : Begin(p, "Put", ref, "v1", "none")
        \/ NoPut /\ \E ref \in Refs : Begin(p, "Delete", ref, "v1", "none")
        \/ CacheGet(p)
        \/ ListDo(p)
        \/ CacheAdd(p)
        \/ GetDownload(p)
        \/ FilesDelete(p)
        \/ CacheRemove(p)
        \/ FilesCreate(p)
        \/ Return(p)

FullSpec == FullInit /\ [][FullNext]_vars

\* ------------------------------------------------------------------- Lister

\* the bytes of a file's contents
Size(data) == IF data = "v1" THEN 1 ELSE 2

\* the files of the folder in the backend's order, the order of their IDs
RECURSIVE Listing(_)
Listing(S) ==
    IF S = {} THEN <<>>
    ELSE LET o == CHOOSE x \in S : \A y \in S : x.id <= y.id
         IN <<[ref |-> o.id, size |-> Size(o.data)]>> \o Listing(S \ {o})

\* the backend's page for a continuation token: the files that follow the
\* token's position, PageSize at most, and the token of the page after it,
\* empty when this page is the last one
PageAt(w, token) ==
    LET all == Listing(objs[w])
        last == IF token + PageSize < Len(all) THEN token + PageSize ELSE Len(all)
    IN [items |-> SubSeq(all, token + 1, last),
        next |-> IF last < Len(all) THEN last ELSE NoToken]

\* the caller of List has a page: it asks for the next one until the token
\* it is given is empty
AfterPage(pr, items, next) ==
    LET got == [pr EXCEPT !.items = @ \o items, !.token = next]
    IN IF next = NoToken THEN Finish(got, "nil") ELSE got

\* a caller starts to enumerate the storage with List("")
BeginList(p) ==
    /\ built = "ok"
    /\ proc[p].pc = "idle"
    /\ proc' = [proc EXCEPT ![p] = [IdleProc EXCEPT !.op = "List", !.pc = "page"]]
    /\ hist' = HistBegin(p, "List", "a")
    /\ UNCHANGED <<objs, nextId, ids, home, opts, built>>

\* List(token): one page of the backend's listing of the folder
ListPage(p) ==
    LET pr == proc[p]
        w == home[p]
    IN /\ pr.pc = "page"
       /\ \E bad \in CallOutcomes(pr, "list") :
            IF bad
            THEN Step(p, Finish([Call(pr, "list", TRUE) EXCEPT !.items = <<>>, !.token = NoToken], "IO"))
            ELSE Step(p, AfterPage(Call(pr, "list", FALSE),
                                   PageAt(w, pr.token).items, PageAt(w, pr.token).next))
       /\ UNCHANGED <<objs, nextId, ids, home, opts, built>>

\* the histories in which no two calls overlap, enumerations among them
ListNext ==
    \E p \in Procs :
        \/ Quiescent /\ BeginDownload(p)
        \/ Quiescent /\ BeginPut(p, Vals)
        \/ Quiescent /\ BeginDelete(p)
        \/ Quiescent /\ BeginList(p)
        \/ CacheGet(p)
        \/ ListDo(p)
        \/ CacheAdd(p)
        \/ GetDownload(p)
        \/ FilesDelete(p)
        \/ CacheRemove(p)
        \/ FilesCreate(p)
        \/ ListPage(p)
        \/ Return(p)

ListSpec == Init /\ [][ListNext]_vars

\* ------------------------------------- the instance and its reference, in step

Cached == 1
Uncached == 2

EquivInit ==
    /\ Start
    /\ home = [p \in Procs |-> IF p = Cached THEN 1 ELSE 2]
    /\ opts = [present |-> OptKeys, expiry |-> ExpiryTest]
    /\ built = "ok"

\* the same call is made on both instances, with the same kind of backend call
\* made to fail for both
EquivBegin ==
    \E op \in {"Download", "Put", "Delete"}, ref \in Refs, val \in Vals, fail \in FailKinds :
        /\ Quiescent
        /\ op # "Put" => val = "v1"
        /\ op = "Put" => \A w \in Worlds : Budget(w)
        /\ proc' = [p \in Procs |-> StartProc(p, op, ref, val, fail)]
        /\ hist' = [HistBegin(Cached, op, ref) EXCEPT !.fails = Worst(@, FailClass(fail))]
        /\ UNCHANGED <<objs, nextId, ids, home, opts, built>>

\* both callers have their results
EquivReturn ==
    /\ \A p \in Procs : proc[p].pc = "done"
    /\ proc' = [p \in Procs |-> IdleProc]
    /\ UNCHANGED <<objs, nextId, ids, home, hist, opts, built>>

EquivNext ==
    \/ EquivBegin
    \/ EquivReturn
    \/ \E p \in Procs :
        \/ CacheGet(p)
        \/ ListDo(p)
        \/ CacheAdd(p)
        \/ GetDownload(p)
        \/ FilesDelete(p)
        \/ CacheRemove(p)
        \/ FilesCreate(p)

EquivSpec == EquivInit /\ [][EquivNext]_vars

\* ------------------------------------------------------------ construction

NewInit ==
    /\ Start
    /\ home = [p \in Procs |-> 1]
    /\ opts \in OptsSet
    /\ built = "none"

\* storage.Dial("Drive", opts...) calls New(opts)
New ==
    /\ built = "none"
    /\ built' = NewResult(opts)
    /\ ids' = [ids EXCEPT ![1] = NewLRU]
    /\ UNCHANGED <<objs, nextId, proc, home, hist, opts>>

NewNext == New

NewSpec == NewInit /\ [][NewNext]_vars


\* ------------------------------------------------------------------- claims

Returned(p, op) == proc[p].pc = "done" /\ proc[p].op = op

Entries(c) == {c[i] : i \in 1..Len(c)}

\* C1: in a sequential history whose backend calls all succeed, Download(r)
\* returns the bytes of the most recent Put(r, v) not followed by a Delete(r),
\* and fails with NotExist when there is none, whatever was done to other
\* references.
C1_DownloadReturnsLastPut ==
    \A p \in Procs :
        Returned(p, "Download") /\ hist.seq /\ hist.fails = "none" =>
            IF hist.last[proc[p].ref] = "none"
            THEN proc[p].res = "NotExist"
            ELSE proc[p].res = "bytes" /\ proc[p].data = hist.last[proc[p].ref]

\* Put(r, v1); Put(r, v2); Download(r) has returned v2, the other reference
\* holding v1
C1_Witness ==
    \E p \in Procs :
        /\ Returned(p, "Download") /\ hist.seq /\ hist.fails = "none"
        /\ proc[p].res = "bytes" /\ proc[p].data = "v2"
        /\ hist.last[proc[p].ref] = "v2"
        /\ \E o \in objs[1] : o.name = proc[p].ref /\ o.id = MaxIds

\* C2: in every state of a sequential history from an empty backend, backend
\* calls failing or not, the backend holds at most one file of any name.
C2_AtMostOnePerName ==
    hist.seq => \A r \in Refs : Cardinality(Named(1, r)) <= 1

\* a Put has replaced the file of its name: it deleted one and created one
C2_Witness ==
    \E p \in Procs :
        /\ Returned(p, "Put") /\ proc[p].res = "nil" /\ hist.seq
        /\ Issued(proc[p], "delete") /\ Issued(proc[p], "create")
        /\ Cardinality(Named(1, proc[p].ref)) = 1

\* C3, as claimed: a Download(ref) started after a Delete(ref) returned success,
\* no Put(ref) in flight then or started since, fails with NotExist, whatever
\* the earlier history (here: when none of the Download's backend calls is made
\* to fail).
C3_DownloadAfterDelete ==
    \A p \in Procs :
        Returned(p, "Download") /\ proc[p].afterDel /\ proc[p].inj = "none" =>
            proc[p].res = "NotExist"

\* C3, amended: when no two calls of the history overlapped, a Download(ref)
\* started after a Delete(ref) returned success, no Put(ref) started since,
\* fails with NotExist, or with IO when its own backend query fails.
C3_DownloadAfterDeleteSequential ==
    \A p \in Procs :
        Returned(p, "Download") /\ proc[p].afterDel /\ hist.seq =>
            \/ proc[p].res = "NotExist"
            \/ proc[p].res = "IO" /\ proc[p].inj = "list"

\* a file was created, Delete(ref) succeeded and the Download that followed
\* failed with NotExist
C3_Witness ==
    \E p \in Procs :
        /\ Returned(p, "Download") /\ proc[p].afterDel /\ hist.seq
        /\ proc[p].res = "NotExist"
        /\ nextId[1] > 1

\* C4: when no operation is in flight, every cache entry (ref -> id) designates
\* a file that the backend holds under the name ref.
C4_CacheEntriesExist ==
    (\A p \in Procs : ~InFlight(p)) =>
        \A e \in Entries(ids[1]) :
            \E o \in objs[1] : o.id = e.id /\ o.name = e.name

\* C5: a Delete(ref) that starts when the backend holds no file named ref, runs
\* alone and has none of its backend calls made to fail, returns nil.
C5_DeleteAbsentSucceeds ==
    \A p \in Procs :
        /\ Returned(p, "Delete") /\ proc[p].absent /\ proc[p].solo
        /\ proc[p].inj = "none"
        =>
            proc[p].res = "nil"

\* C6: two overlapping Put(ref, _) that both found no file named ref (both
\* resolved before either created) and both created theirs leave two
\* files named ref, every query lists all the files of the name, and fileId
\* caches and returns the first file of the query's response.
C6_BothCreated ==
    \A p, q \in Procs :
        /\ p # q /\ proc[p].ref = proc[q].ref
        /\ \A x \in {p, q} :
              /\ Returned(x, "Put") /\ proc[x].res = "nil" /\ ~proc[x].solo
              /\ proc[x].calls = <<"list", "create">>
        => /\ Cardinality(Named(1, proc[p].ref)) = Cardinality({p, q})
           /\ \A o \in Named(1, proc[p].ref) : \E x \in {p, q} : o.data = proc[x].val
           /\ \A x \in {p, q} : \E o \in Named(1, proc[p].ref) : o.data = proc[x].val

C6_ResolveTakesFirst ==
    \A p \in Procs :
        /\ proc[p].pc = "list" /\ proc'[p].pc = "add" =>
            {proc'[p].files[i] : i \in 1..Len(proc'[p].files)} =
                {o.id : o \in Named(1, proc[p].ref)}
        /\ proc[p].pc = "add" /\ proc'[p].pc # "add" =>
            /\ ids'[1][1] = [name |-> proc[p].ref, id |-> proc[p].files[1]]
            /\ proc'[p].pc \in {"download", "delete"} => proc'[p].id = proc[p].files[1]
            /\ proc'[p].pc = "get" => proc'[p].putId = proc[p].files[1]

C6_PutsRace == [](C6_BothCreated) /\ [][C6_ResolveTakesFirst]_vars

\* a Put(ref) that found no file has returned, the backend holds two files
\* named ref, and a later fileId(ref) has both in its query's response
C6_Witness ==
    \E p, q \in Procs :
        /\ Returned(p, "Put") /\ proc[p].res = "nil"
        /\ proc[p].calls = <<"list", "create">>
        /\ Cardinality(Named(1, proc[p].ref)) = 2
        /\ proc[q].pc = "add" /\ proc[q].ref = proc[p].ref
        /\ proc[q].op = "Download"
        /\ Len(proc[q].files) = 2

\* C7, as claimed: after every call of a sequential history made on the
\* instance with the LRU and on one whose cache always misses, over backends
\* that fail the same kinds of calls, both have returned the same result and
\* their backends hold the same files.
BothReturned == \A p \in Procs : proc[p].pc = "done"

SameOutcome ==
    /\ proc[Cached].res = proc[Uncached].res
    /\ proc[Cached].data = proc[Uncached].data
    /\ objs[home[Cached]] = objs[home[Uncached]]

C7_CacheIsTransparent == BothReturned => SameOutcome

\* C7, amended: the same, for the histories in which no backend query is made
\* to fail (the other backend calls may).
C7_CacheIsTransparentUnlessQueryFails ==
    BothReturned /\ hist.fails # "query" => SameOutcome

\* a Download answered from the cache by one instance and through a query by
\* the other has returned the same bytes
C7_Witness ==
    /\ BothReturned /\ hist.fails # "query"
    /\ proc[Cached].op = "Download" /\ proc[Cached].res = "bytes"
    /\ proc[Cached].calls = <<"download">>
    /\ proc[Uncached].calls = <<"list", "download">>
    /\ SameOutcome

\* the step is one of p's operation
Stepped(p) == proc'[p] # proc[p] /\ \A q \in Procs \ {p} : proc'[q] = proc[q]

\* C8: when the backend delete call of Delete(ref) fails, Delete returns an IO
\* error with the cache as it was; an entry leaves the cache only in the
\* ids.Remove of a Delete of its name whose backend delete call succeeded.
C8_FailedDeleteStep ==
    \A p \in Procs :
        proc[p].pc = "delete" /\ Stepped(p) =>
            IF objs' = objs
            THEN /\ proc'[p].pc = "done" /\ proc'[p].res = "IO"
                 /\ ids' = ids
            ELSE /\ proc'[p].pc = "remove"
                 /\ ids' = ids

C8_RemoveStep ==
    \A r \in Refs :
        LRUHas(ids[1], r) /\ ~LRUHas(ids'[1], r) =>
            \E p \in Procs :
                /\ proc[p].pc = "remove" /\ Stepped(p) /\ proc[p].ref = r
                /\ Issued(proc[p], "delete")
                /\ ~Exists(1, proc[p].id)

C8_DeleteFailureKeepsEntry == [][C8_FailedDeleteStep /\ C8_RemoveStep]_vars

\* a Delete whose backend delete call failed has returned IO; the file and its
\* cache entry are still there
C8_Witness ==
    \E p \in Procs :
        /\ Returned(p, "Delete") /\ proc[p].res = "IO" /\ proc[p].inj = "delete"
        /\ LRUHas(ids[1], proc[p].ref)
        /\ \E o \in Named(1, proc[p].ref) : o.id = CachedId(1, proc[p].ref)

\* C9: fileId issues no query on a cache hit and does not change what the
\* cache maps; on a miss the query leaves the cache as it is, and fileId goes
\* on to ids.Add exactly when the query succeeded with a match (a Download
\* gets IO for a failed query and NotExist for no match); an entry enters the
\* cache only in that ids.Add, as (name -> first file of the response).
C9_GetStep ==
    \A p \in Procs :
        proc[p].pc = "get" /\ Stepped(p) =>
            IF LRUHas(ids[1], proc[p].ref)
            THEN /\ proc'[p].pc # "list" /\ proc'[p].calls = proc[p].calls
                 /\ Entries(ids'[1]) = Entries(ids[1])
            ELSE /\ proc'[p].pc = "list"
                 /\ ids' = ids

C9_ListStep ==
    \A p \in Procs :
        proc[p].pc = "list" /\ Stepped(p) =>
            /\ ids' = ids
            /\ proc'[p].pc = "add" <=>
                  (proc'[p].inj = "none" /\ Named(1, proc[p].ref) # {})
            /\ proc[p].op = "Download" /\ proc'[p].inj = "list" =>
                  proc'[p].pc = "done" /\ proc'[p].res = "IO"
            /\ proc[p].op = "Download" /\ proc'[p].inj = "none"
                    /\ Named(1, proc[p].ref) = {} =>
                  proc'[p].pc = "done" /\ proc'[p].res = "NotExist"

C9_AddStep ==
    \A e \in Entries(ids'[1]) \ Entries(ids[1]) :
        \E p \in Procs :
            /\ proc[p].pc = "add" /\ Stepped(p)
            /\ e = [name |-> proc[p].ref, id |-> proc[p].files[1]]

C9_FileIdCachesOnSuccess == [][C9_GetStep /\ C9_ListStep /\ C9_AddStep]_vars

\* a Download whose fileId missed the cache has queried the backend and cached
\* the ID it goes on to read
C9_Witness ==
    \E p \in Procs :
        /\ proc[p].op = "Download" /\ proc[p].pc = "download"
        /\ proc[p].calls = <<"list">>
        /\ ids[1][1] = [name |-> proc[p].ref, id |-> proc[p].id]

\* C10: New returns an error of kind Invalid when an option is missing or the
\* expiry is no RFC3339 time, and a storage with an empty cache otherwise.
OptsBad(o) == ~(OptKeys \subseteq o.present) \/ ~ParsesRFC3339(ExpiryOf(o))

C10_NewInvalidOrUsable ==
    built # "none" =>
        IF OptsBad(opts) THEN built = "Invalid"
        ELSE built = "ok" /\ ids[1] = <<>>

C12_Bounded ==
    /\ Len(ids[1]) <= LRUSize
    /\ \A i, j \in 1..Len(ids[1]) : ids[1][i].name = ids[1][j].name => i = j

C12_EvictsOldest ==
    ids'[1] # ids[1] =>
        \E p \in Procs :
            LET n == proc[p].ref
                before == LRUOthers(ids[1], n)
                after == LRUOthers(ids'[1], n)
            IN /\ Stepped(p)
               /\ LRUHas(ids'[1], n) => ids'[1][1].name = n
               /\ IF Len(ids[1]) = LRUSize /\ ~LRUHas(ids[1], n) /\ LRUHas(ids'[1], n)
                  THEN after = SubSeq(ids[1], 1, LRUSize - 1)
                  ELSE after = before

C12_CacheBounded == [](C12_Bounded) /\ [][C12_EvictsOldest]_vars

\* the cache is full and has lost the entry that was its least recently used
C12_Witness ==
    /\ Len(ids[1]) = LRUSize
    /\ ~LRUHas(ids[1], OtherName(Others))
    /\ \A r \in Refs : LRUHas(ids[1], r)

\* C13: a Put that resolved ref to an existing ID deletes the file of exactly
\* that ID, and goes on to create only after it issued the backend delete and
\* that delete succeeded, whatever other calls run in between.
C13_DeletedIsResolved ==
    \A p \in Procs :
        proc[p].op = "Put" /\ proc[p].putId # NoId /\ proc[p].pc = "remove" =>
            proc[p].id = proc[p].putId

C13_CreateAfterDelete ==
    \A p \in Procs :
        proc[p].op = "Put" /\ proc[p].putId # NoId /\ proc[p].pc = "create" =>
            Issued(proc[p], "delete")

C13_PutDeletesResolvedId == C13_DeletedIsResolved /\ C13_CreateAfterDelete

\* C14: the step in which a backend call of an operation fails (the query, or
\* any call the backend refuses, for a missing file too) is the operation's
\* return with an IO error; an operation that returned issues no further
\* call; a Put whose query or delete failed has issued no create; and no
\* operation issues more than four backend calls.
C14_CallFails(p) ==
    \/ proc[p].pc \in {"list", "create"} /\ proc'[p].inj = proc[p].pc
    \/ proc[p].pc \in {"download", "delete"}
          /\ (proc'[p].inj = proc[p].pc \/ ~Exists(home[p], proc[p].id))

C14_FailureReturns ==
    \A p \in Procs :
        /\ Stepped(p) /\ C14_CallFails(p) =>
              /\ proc'[p].pc = "done" /\ proc'[p].res = "IO"
              /\ Len(proc'[p].calls) = Len(proc[p].calls) + 1
        /\ proc[p].pc = "done" /\ proc'[p].pc # "idle" => proc'[p].calls = proc[p].calls

C14_NoCreateAfterFailure ==
    \A p \in Procs :
        /\ Len(proc[p].calls) <= 4
        /\ proc[p].op = "Put" /\ proc[p].inj \in {"list", "delete"} =>
              proc[p].pc = "done" /\ proc[p].res = "IO" /\ ~Issued(proc[p], "create")
        /\ proc[p].inj # "none" => proc[p].calls[Len(proc[p].calls)] = proc[p].inj

C14_NoRetry == [](C14_NoCreateAfterFailure) /\ [][C14_FailureReturns]_vars

\* a Put found a file, the backend delete failed and Put returned the IO error
\* with the file still there and none created
C14_Witness ==
    \E p \in Procs :
        /\ Returned(p, "Put") /\ proc[p].res = "IO" /\ proc[p].inj = "delete"
        /\ proc[p].calls = <<"list", "delete">>
        /\ Cardinality(objs[1]) = 1 /\ nextId[1] = 2

\* C15: in a sequential history the cache holds no entry for ref when a
\* successful Put(ref, v) has returned; the step of Put's create call leaves
\* the cache as it is; and the Download(ref) or Delete(ref) that is the next
\* call starts with a backend query.
C15_NoEntryAfterPut ==
    \A p \in Procs :
        /\ Returned(p, "Put") /\ proc[p].res = "nil" /\ hist.seq =>
              ~LRUHas(ids[1], proc[p].ref)
        /\ proc[p].afterPut /\ hist.seq /\ proc[p].pc # "get" =>
              \/ proc[p].pc = "list" /\ proc[p].calls = <<>>
              \/ proc[p].calls # <<>> /\ proc[p].calls[1] = "list"

C15_CreateStep ==
    \A p \in Procs : proc[p].pc = "create" /\ Stepped(p) => ids' = ids

C15_PutLeavesNoEntry == [](C15_NoEntryAfterPut) /\ [][C15_CreateStep]_vars

\* a Put replaced the file whose ID was cached, and the Download that followed
\* queried the backend and returned the new contents
C15_Witness ==
    \E p \in Procs :
        /\ Returned(p, "Download") /\ proc[p].afterPut /\ hist.seq
        /\ proc[p].calls = <<"list", "download">>
        /\ proc[p].res = "bytes" /\ proc[p].data = "v2"
        /\ nextId[1] > 2

\* C16, as claimed: in a sequential history, after a successful Put(ref, v1)
\* and a later Put(ref, v2) that returned an error, a Download(ref) whose
\* backend calls succeed returns v1.
C16_FailedPutKeepsData ==
    \A p \in Procs :
        /\ Returned(p, "Download") /\ hist.seq /\ proc[p].inj = "none"
        /\ hist.last[proc[p].ref] # "none" /\ hist.failedPut[proc[p].ref] # "none"
        =>
            proc[p].res = "bytes" /\ proc[p].data = hist.last[proc[p].ref]

\* C16, amended: the Download returns v1 when the failed Put(ref, v2) did not
\* get to its create call (its query or its delete failed), and fails with
\* NotExist when the create call is what failed, the file of v1 being deleted
\* by then.
C16_FailedPutKeepsDataUnlessCreateFailed ==
    \A p \in Procs :
        /\ Returned(p, "Download") /\ hist.seq /\ proc[p].inj = "none"
        /\ hist.last[proc[p].ref] # "none" /\ hist.failedPut[proc[p].ref] # "none"
        =>
            IF hist.failedPut[proc[p].ref] = "early"
            THEN proc[p].res = "bytes" /\ proc[p].data = hist.last[proc[p].ref]
            ELSE proc[p].res = "NotExist"

\* Put(ref, v2) succeeded, a later Put(ref) failed before its create call, and
\* the Download that followed returned v2
C16_Witness ==
    \E p \in Procs :
        /\ Returned(p, "Download") /\ hist.seq /\ proc[p].inj = "none"
        /\ hist.last[proc[p].ref] = "v2" /\ hist.failedPut[proc[p].ref] = "early"
        /\ proc[p].res = "bytes" /\ proc[p].data = "v2"

\* C17: under any interleaving, a step of an operation on the name n creates
\* and deletes only files named n, and none at all in a Download; of the cache
\* entries of the other names it changes nothing, except that the insertion
\* of n into the full cache discards the least recently used one.
C17_BackendStep ==
    \A p \in Procs :
        Stepped(p) =>
            /\ \A o \in (objs[1] \ objs'[1]) \cup (objs'[1] \ objs[1]) :
                  o.name = proc[p].ref /\ proc[p].op \in {"Put", "Delete"}
            /\ objs'[2] = objs[2]

C17_CacheStep ==
    \A p \in Procs :
        Stepped(p) =>
            LET n == proc[p].ref
                evicts == /\ Len(ids[1]) = LRUSize
                          /\ ~LRUHas(ids[1], n) /\ LRUHas(ids'[1], n)
            IN /\ \A e \in Entries(ids[1]) :
                    e.name # n =>
                        \/ e \in Entries(ids'[1])
                        \/ evicts /\ e = ids[1][Len(ids[1])]
               /\ \A e \in Entries(ids'[1]) : e.name # n => e \in Entries(ids[1])

C17_IsolatedPerName == [][C17_BackendStep /\ C17_CacheStep]_vars

\* a Delete has deleted the file of its name; the file of the other name and
\* its cache entry are there
C17_Witness ==
    \E p \in Procs : \E r \in Refs \ {proc[p].ref} :
        /\ Returned(p, "Delete") /\ proc[p].res = "nil" /\ Issued(proc[p], "delete")
        /\ \E o \in objs[1] : o.name = r /\ LRUHas(ids[1], r) /\ CachedId(1, r) = o.id
        /\ \A o \in objs[1] : o.name # proc[p].ref

====
